---- MODULE Spec2Model ----
(***************************************************************************)
(* temp_edit_game_screen_block.py: a nine-line script that reads           *)
(* game_screen.dart, aborts unless a literal block is present, replaces    *)
(* the first occurrence of the block and writes the file back.             *)
(*                                                                         *)
(* Strings are TLA+ strings, one character per code unit; the two literals *)
(* are the script's own.  Path.read_text and Path.write_text open the file *)
(* in text mode with newline=None, so the model carries the newline        *)
(* translations of the text layer: reading maps "\r\n" and "\r" to "\n",   *)
(* writing maps "\n" to os.linesep.  UTF-8 decoding and encoding are       *)
(* inverse on every content that decodes, so they appear only as the       *)
(* failure of the read on content that does not decode.                    *)
(*                                                                         *)
(* Spec      the script, run by NProcs invocations against one file.       *)
(* FairSpec  Spec with every invocation eventually taking its next step.   *)
(* SpecText  lines 4-8 (the guard and the replacement) applied to an       *)
(*           in-memory text, and again to their own output.                *)
(***************************************************************************)
EXTENDS Integers, Sequences, FiniteSets, TLC

VARIABLES disk, fstat, orig, pc, text, reads, writes,
          buf, input, stage, applied

vars == <<disk, fstat, orig, pc, text, reads, writes,
          buf, input, stage, applied>>

progVars == <<disk, fstat, orig, pc, text, reads, writes>>

textVars == <<buf, input, stage, applied>>

(***************************************************************************)
(* Bounds.                                                                 *)
(***************************************************************************)
\* concurrent invocations of the script
NProcs == 2

\* blocks a file content is made of
MaxBlocks == 2

\* blocks an in-memory text handed to lines 4-8 is made of
MaxTextBlocks == 3

\* applications of lines 4-8 to their own output
MaxApply == 2

Procs == 1..NProcs

(***************************************************************************)
(* The literals of lines 4 and 7.                                          *)
(***************************************************************************)
target == "                if (game.screenSize != size) {\r\n                  game.setScreenSize(size);\r\n                }\r\n\r\n                final halfWidth = size.width * 0.5;\r\n"

\* the debug block without the brace that closes it
replacement_unclosed == "                if (game.screenSize != size) {\r\n                  game.setScreenSize(size);\r\n                }\r\n                if (kDebugMode) {\r\n                  debugPrint(\r\n                    'state=\\${game.gameState} size=\\${size.width.toStringAsFixed(1)}x\\${size.height.toStringAsFixed(1)}',\r\n                  );\r\n\r\n                final halfWidth = size.width * 0.5;\r\n"

replacement == "                if (game.screenSize != size) {\r\n                  game.setScreenSize(size);\r\n                }\r\n                if (kDebugMode) {\r\n                  debugPrint(\r\n                    'state=\\${game.gameState} size=\\${size.width.toStringAsFixed(1)}x\\${size.height.toStringAsFixed(1)}',\r\n                  );\r\n                }\r\n\r\n                final halfWidth = size.width * 0.5;\r\n"

(***************************************************************************)
(* str primitives: `t in s`, s.find(t), s.replace(t, r, 1), s.count(t).    *)
(***************************************************************************)
Min(S) == CHOOSE x \in S : \A y \in S : x <= y

\* the start positions of the occurrences of t in s
Hits(s, t) ==
    { i \in 1..(Len(s) - Len(t) + 1) :
        /\ SubSeq(s, i, i) = SubSeq(t, 1, 1)
        /\ SubSeq(s, i, i + Len(t) - 1) = t }

Contains(s, t) == Hits(s, t) # {}

\* the start of the leftmost occurrence, 0 when there is none
Find(s, t) == IF Hits(s, t) = {} THEN 0 ELSE Min(Hits(s, t))

Drop(s, n) == SubSeq(s, n + 1, Len(s))

\* the replacement put in front of the occurrence, which stays
ReplaceFirst_keep(s, t, r) ==
    LET i == Find(s, t)
    IN  IF i = 0 THEN s
        ELSE SubSeq(s, 1, i - 1) \o r \o Drop(s, i - 1)

\* the leftmost occurrence replaced, every other character kept
ReplaceFirst(s, t, r) ==
    LET i == Find(s, t)
    IN  IF i = 0 THEN s
        ELSE SubSeq(s, 1, i - 1) \o r \o Drop(s, i + Len(t) - 1)

(***************************************************************************)
(* The text layer of read_text and write_text (newline=None).              *)
(***************************************************************************)
\* the element of a one-element set: Only({ F(v) : v \in {e} }) is F(e) with e
\* evaluated once, which keeps the recursions below cheap under ENABLED
Only(S) == CHOOSE x \in S : TRUE

\* the middle element of a non-empty set of positions
Middle(S) == CHOOSE i \in S : Cardinality({ j \in S : j < i }) = Cardinality(S) \div 2

RECURSIVE ReadRange(_, _, _, _)
\* v[lo..hi] as read, cr being the positions of "\r" in v: the range is cut at
\* one "\r" (and the "\n" that follows it, if any), both sides are translated
ReadRange(v, cr, lo, hi) ==
    LET Part(l, h) ==
            LET Cut(i) ==
                    ReadRange(v, cr, l, i - 1) \o "\n"
                    \o ReadRange(v, cr, IF i < h /\ SubSeq(v, i + 1, i + 1) = "\n"
                                        THEN i + 2 ELSE i + 1, h)
                At(inside) == IF inside = {} THEN SubSeq(v, l, h)
                          ELSE Only({ Cut(i) : i \in {Middle(inside)} })
            IN  Only({ At(inside) : inside \in {{ i \in cr : l <= i /\ i <= h }} })
    IN  Only({ Part(l, h) : l \in {lo}, h \in {hi} })

\* reading with newline="": nothing translated
UniversalNewlines_off(s) == s

\* reading: "\r\n" and a lone "\r" both become "\n"
UniversalNewlines(s) ==
    Only({ Only({ ReadRange(v, cr, 1, Len(v)) : cr \in {Hits(v, "\r")} }) : v \in {s} })

RECURSIVE WriteRange(_, _, _, _, _)
\* v[lo..hi] as written, lf being the positions of "\n" in v
WriteRange(v, lf, sep, lo, hi) ==
    LET Part(l, h) ==
            LET Cut(i) ==
                    WriteRange(v, lf, sep, l, i - 1) \o sep
                    \o WriteRange(v, lf, sep, i + 1, h)
                At(inside) == IF inside = {} THEN SubSeq(v, l, h)
                          ELSE Only({ Cut(i) : i \in {Middle(inside)} })
            IN  Only({ At(inside) : inside \in {{ i \in lf : l <= i /\ i <= h }} })
    IN  Only({ Part(l, h) : l \in {lo}, h \in {hi} })

\* writing: every "\n" becomes the platform's line separator
WriteNewlines(s, sep) ==
    IF sep = "\n" THEN s
    ELSE Only({ Only({ WriteRange(v, lf, sep, 1, Len(v)) : lf \in {Hits(v, "\n")} })
                : v \in {s} })

\* data written from offset 0 over a file that may already be longer
Overlay(old, data) == data \o Drop(old, Len(data))

(***************************************************************************)
(* Lines 4-8 on a text.                                                    *)
(***************************************************************************)
\* the guard dropped
TargetMissing_never(t) == FALSE

\* line 5: target not in text
TargetMissing(t) == ~Contains(t, target)

\* line 8: text.replace(target, replacement, 1)
Substitute(t) == ReplaceFirst(t, target, replacement)

(***************************************************************************)
(* The files and texts the model ranges over: a few blocks in a row, each  *)
(* the target block as the script spells it (CRLF), the same block with LF *)
(* line ends, the block already edited, or filler lines that end in        *)
(* "\r\n", a lone "\r" and "\n".                                           *)
(***************************************************************************)
Blocks == { target, UniversalNewlines(target), replacement, "// a\r\nb\rc\n" }

RECURSIVE Texts(_)
Texts(n) ==
    IF n = 0 THEN {""}
    ELSE Texts(n - 1) \cup { x \o b : x \in Texts(n - 1), b \in Blocks }

Contents == Texts(MaxBlocks)

\* what the read of line 3 can meet: a readable and writable file, a file
\* open() may read but not write, no file, a file open() may not read, a file
\* whose bytes are not UTF-8
FileStates == {"ok", "readonly", "missing", "denied", "undecodable"}

ReadFailures == {"missing", "denied", "undecodable"}

\* os.linesep of the platform an invocation runs on
LineSeps == {"\n", "\r\n"}

(***************************************************************************)
(* The script, one statement per step.  pc[p] is the line invocation p is  *)
(* about to execute, or how it ended: "exit0" (fell off the end),          *)
(* "SystemExit" (line 6), "raised3" / "raised9" (an OSError or a           *)
(* UnicodeDecodeError out of line 3 or line 9).  "line9w" is inside        *)
(* write_text: the file is open for writing, truncated, the data not       *)
(* yet written.                                                            *)
(***************************************************************************)
Terminal == {"exit0", "SystemExit", "raised3", "raised9"}

\* the read's failure swallowed: the script goes on with an empty text
Line3_swallow(p) ==
    /\ reads' = [reads EXCEPT ![p] = @ + 1]
    /\ pc' = [pc EXCEPT ![p] = "line5"]
    /\ text' = [text EXCEPT ![p] =
                    IF fstat \in ReadFailures THEN "" ELSE UniversalNewlines(disk)]
    /\ UNCHANGED <<disk, writes>>

\* line 3: text = path.read_text(encoding="utf-8")
Line3(p) ==
    /\ reads' = [reads EXCEPT ![p] = @ + 1]
    /\ IF fstat \in ReadFailures
       THEN /\ pc' = [pc EXCEPT ![p] = "raised3"]
            /\ text' = text
       ELSE /\ pc' = [pc EXCEPT ![p] = "line5"]
            /\ text' = [text EXCEPT ![p] = UniversalNewlines(disk)]
    /\ UNCHANGED <<disk, writes>>

\* the guard returning quietly instead of raising
Line5_quiet(p) ==
    /\ pc' = [pc EXCEPT ![p] = IF TargetMissing(text[p]) THEN "exit0" ELSE "line8"]
    /\ UNCHANGED <<disk, text, reads, writes>>

\* lines 5-6: if target not in text: raise SystemExit(...)
Line5(p) ==
    /\ pc' = [pc EXCEPT ![p] = IF TargetMissing(text[p]) THEN "SystemExit" ELSE "line8"]
    /\ UNCHANGED <<disk, text, reads, writes>>

\* lines 7-8: text = text.replace(target, replacement, 1)
Line8(p) ==
    /\ text' = [text EXCEPT ![p] = Substitute(text[p])]
    /\ pc' = [pc EXCEPT ![p] = "line9"]
    /\ UNCHANGED <<disk, reads, writes>>

\* line 9, open(path, "w"): the file is truncated in place
Line9Open(p) ==
    /\ IF fstat = "readonly"
       THEN /\ pc' = [pc EXCEPT ![p] = "raised9"]
            /\ disk' = disk
       ELSE /\ pc' = [pc EXCEPT ![p] = "line9w"]
            /\ disk' = ""
    /\ UNCHANGED <<text, reads, writes>>

\* line 9, write and close: the translated text goes out from offset 0
Line9Write(p) ==
    /\ \E sep \in LineSeps : disk' = Overlay(disk, WriteNewlines(text[p], sep))
    /\ writes' = [writes EXCEPT ![p] = @ + 1]
    /\ pc' = [pc EXCEPT ![p] = "exit0"]
    /\ UNCHANGED <<text, reads>>

\* invocation p executes its next statement
Step(p) ==
    /\ pc[p] \notin Terminal
    /\ CASE pc[p] = "line3"  -> Line3(p)
         [] pc[p] = "line5"  -> Line5(p)
         [] pc[p] = "line8"  -> Line8(p)
         [] pc[p] = "line9"  -> Line9Open(p)
         [] pc[p] = "line9w" -> Line9Write(p)
    /\ UNCHANGED <<fstat, orig>>
    /\ UNCHANGED textVars

Init ==
    /\ fstat \in FileStates
    /\ disk \in IF fstat = "missing" THEN {""} ELSE Contents
    /\ orig = disk
    /\ pc = [p \in Procs |-> "line3"]
    /\ text = [p \in Procs |-> ""]
    /\ reads = [p \in Procs |-> 0]
    /\ writes = [p \in Procs |-> 0]
    /\ buf = "" /\ input = "" /\ stage = "idle" /\ applied = 0

Next == \E p \in Procs : Step(p)

Spec == Init /\ [][Next]_vars

\* a started interpreter runs on: its reads and writes block, they do not starve
FairSpec == Spec /\ \A p \in Procs : WF_vars(Step(p))

(***************************************************************************)
(* Lines 4-8 on an in-memory text: the guard, then the replacement, whose  *)
(* output is handed to the guard again.  The text is any str, carriage     *)
(* returns included.                                                       *)
(***************************************************************************)
InitText ==
    /\ input \in Texts(MaxTextBlocks)
    /\ buf = input
    /\ stage = "line5"
    /\ applied = 0
    /\ fstat = "ok" /\ disk = "" /\ orig = ""
    /\ pc = [p \in Procs |-> "line3"]
    /\ text = [p \in Procs |-> ""]
    /\ reads = [p \in Procs |-> 0]
    /\ writes = [p \in Procs |-> 0]

\* lines 5-6 on buf
TextGuard ==
    /\ stage = "line5"
    /\ stage' = IF TargetMissing(buf) THEN "SystemExit" ELSE "line8"
    /\ UNCHANGED <<buf, input, applied>>
    /\ UNCHANGED progVars

\* lines 7-8 on buf; the result goes back to line 5
TextReplace ==
    /\ stage = "line8"
    /\ applied < MaxApply
    /\ buf' = Substitute(buf)
    /\ applied' = applied + 1
    /\ stage' = "line5"
    /\ UNCHANGED input
    /\ UNCHANGED progVars

NextText == TextGuard \/ TextReplace

SpecText == InitText /\ [][NextText]_vars

(***************************************************************************)
(* Vocabulary of the properties.                                           *)
(***************************************************************************)
\* p is the only invocation that has started
Solo(p) == \A q \in Procs \ {p} : pc[q] = "line3"

RECURSIVE Count(_, _)
\* the non-overlapping occurrences, counted from the left
Count(s, t) ==
    LET i == Find(s, t)
    IN  IF i = 0 THEN 0 ELSE 1 + Count(Drop(s, i + Len(t) - 1), t)

RECURSIVE CRLFLines(_)
\* the CRLF-terminated lines of s, without their terminators
CRLFLines(s) ==
    LET i == Find(s, "\r\n")
    IN  IF i = 0 THEN <<>>
        ELSE <<SubSeq(s, 1, i - 1)>> \o CRLFLines(Drop(s, i + 1))

\* r is t with exactly n lines inserted at one place
InsertsLines(t, r, n) ==
    LET T == CRLFLines(t)
        R == CRLFLines(r)
    IN  /\ Len(R) = Len(T) + n
        /\ \E i \in 0..Len(T) :
              /\ SubSeq(R, 1, i) = SubSeq(T, 1, i)
              /\ SubSeq(R, i + n + 1, Len(R)) = SubSeq(T, i + 1, Len(T))

(***************************************************************************)
(* C1.  A file that holds the target exactly once ends, after a run, as    *)
(* the original with that occurrence replaced by the replacement and       *)
(* every other character unchanged.                                        *)
(***************************************************************************)
C1_SingleOccurrenceReplaced ==
    \A p \in Procs :
        (fstat = "ok" /\ Count(orig, target) = 1 /\ Solo(p) /\ pc[p] \in Terminal)
            => (pc[p] = "exit0" /\ disk = Substitute(orig))

(***************************************************************************)
(* C2.  A file that does not hold the target is never written: the stored  *)
(* content stays the original in every state, no invocation gets past the  *)
(* guard, and an invocation that ends has signalled failure.               *)
(***************************************************************************)
C2_AbsentTargetNeverWritten ==
    ~Contains(orig, target) =>
        /\ disk = orig
        /\ \A p \in Procs :
              /\ writes[p] = 0
              /\ pc[p] \in {"line3", "line5", "SystemExit", "raised3"}

C2_Witness ==
    \E p \in Procs :
        /\ ~Contains(orig, target) /\ orig # "" /\ fstat = "ok"
        /\ pc[p] = "SystemExit"

(***************************************************************************)
(* C3.  A file that holds the target more than once ends, after a run,     *)
(* with the first occurrence replaced and every later one still there.     *)
(***************************************************************************)
C3_OnlyFirstReplaced ==
    \A p \in Procs :
        (fstat = "ok" /\ Count(orig, target) > 1 /\ Solo(p) /\ pc[p] \in Terminal)
            => /\ disk = Substitute(orig)
               /\ Count(disk, target) = Count(orig, target) - 1

C5_ThreeLinesInserted ==
    /\ InsertsLines(target, replacement, 3)
    /\ applied = 1 => Len(CRLFLines(buf)) = Len(CRLFLines(input)) + 3

(***************************************************************************)
(* C5, amended.  The replacement is the target with exactly five lines     *)
(* inserted at one place, the target's own lines kept in their order; an   *)
(* application of line 8 adds five CRLF-terminated lines to the text.      *)
(***************************************************************************)
C5_FiveLinesInserted ==
    /\ InsertsLines(target, replacement, 5)
    /\ applied = 1 => Len(CRLFLines(buf)) = Len(CRLFLines(input)) + 5

C5_Witness ==
    /\ applied = 1
    /\ Len(CRLFLines(input)) >= Len(CRLFLines(target))
    /\ Len(CRLFLines(buf)) = Len(CRLFLines(input)) + 5

(***************************************************************************)
(* C6.  Every run terminates, and off the I/O-error paths in one of two    *)
(* ways the guard decides: exit 0 after one read and one write, or         *)
(* SystemExit after one read and no write, the target being absent from    *)
(* the text read.  Nothing is read or written twice.                       *)
(***************************************************************************)
C6_OutcomeInv ==
    \A p \in Procs :
        /\ reads[p] <= 1 /\ writes[p] <= 1
        /\ pc[p] = "exit0" => (reads[p] = 1 /\ writes[p] = 1)
        /\ pc[p] = "SystemExit" =>
              (reads[p] = 1 /\ writes[p] = 0 /\ TargetMissing(text[p]))
        /\ (pc[p] \in Terminal /\ fstat = "ok") => pc[p] \in {"exit0", "SystemExit"}

C6_GuardDecides ==
    \A p \in Procs :
        (pc[p] = "line5" /\ pc'[p] # "line5") =>
            /\ TargetMissing(text[p]) => pc'[p] = "SystemExit"
            /\ ~TargetMissing(text[p]) => pc'[p] = "line8"

C6_TerminatesInOneOfTwoOutcomes ==
    /\ []C6_OutcomeInv
    /\ [][C6_GuardDecides]_vars
    /\ \A p \in Procs : <>(pc[p] \in Terminal)

C6_Witness ==
    \E p \in Procs :
        /\ fstat = "ok" /\ pc[p] = "SystemExit"
        /\ reads[p] = 1 /\ writes[p] = 0 /\ TargetMissing(text[p])

(***************************************************************************)
(* C7.  When the read fails, the run ends at line 3: no invocation gets    *)
(* to the guard or to the write, no text is bound, and the stored content  *)
(* stays the original.                                                     *)
(***************************************************************************)
C7_ReadFailurePropagates ==
    fstat \in ReadFailures =>
        /\ disk = orig
        /\ \A p \in Procs :
              /\ pc[p] \in {"line3", "raised3"}
              /\ pc[p] = "raised3" <=> reads[p] = 1
              /\ text[p] = "" /\ writes[p] = 0

C7_Witness ==
    \E p \in Procs : fstat = "undecodable" /\ orig # "" /\ pc[p] = "raised3"

(***************************************************************************)
(* C8.  The text read holds no carriage return while the target holds      *)
(* "\r\n"; so the guard aborts whatever the file holds, lines 8 and 9 are  *)
(* never reached and the file is never written.                            *)
(***************************************************************************)
C8_WriteUnreachable ==
    /\ Contains(target, "\r\n")
    /\ \A p \in Procs :
          /\ ~Contains(text[p], "\r")
          /\ pc[p] \in {"line3", "line5", "SystemExit", "raised3"}
          /\ writes[p] = 0
    /\ disk = orig

C8_Witness ==
    \E p \in Procs :
        /\ fstat = "ok" /\ Contains(orig, target)
        /\ pc[p] = "SystemExit"

(***************************************************************************)
(* C9.  The write is in place and in two steps, so a run on a file that    *)
(* holds the target passes through a state, inside the write, in which     *)
(* the file is neither the original nor the substituted content; a process *)
(* that stops there leaves it so.  Stated of a run alone: it does not end  *)
(* short of the write, and inside the write the file is torn.              *)
(***************************************************************************)
C9_TornWriteReached ==
    \A p \in Procs :
        (fstat = "ok" /\ Contains(orig, target) /\ Solo(p)) =>
            /\ pc[p] # "SystemExit"
            /\ pc[p] = "line9w" => disk \notin {orig, Substitute(orig)}

(***************************************************************************)
(* C10.  Two invocations that have both read a file holding the target,    *)
(* before either has written, both pass the guard, so both go on to write  *)
(* the same file.                                                          *)
(***************************************************************************)
C10_BothPassGuard ==
    \A p, q \in Procs :
        ( /\ p # q /\ fstat = "ok" /\ Contains(orig, target)
          /\ disk = orig /\ writes[p] = 0 /\ writes[q] = 0
          /\ pc[p] \notin {"line3", "line5"} /\ pc[q] \notin {"line3", "line5"} )
            => (pc[p] # "SystemExit" /\ pc[q] # "SystemExit")

====
